---- MODULE Spec2Model ----
(***************************************************************************)
(* Model of src/video-data/main.py: the frame sampler                      *)
(* (frames_from_video_file), the subset downloader                         *)
(* (download_ucf_101_subset and its helpers) and the FrameGenerator.       *)
(***************************************************************************)
EXTENDS Integers, Sequences, FiniteSets, TLC

(* ---------------- bounds ---------------- *)
MaxLen == 4
MaxFrames == 3
MaxStep == 2
MaxFiles == 3
MaxCount == 2
MaxRuns == 2
MaxShuffle == 4
MaxVideos == 1

(* ---------------- small helpers ---------------- *)
Range(s) == {s[i] : i \in 1..Len(s)}

Min(a, b) == IF a <= b THEN a ELSE b

\* Python slice s[:c] for c >= 0
Take(s, c) == SubSeq(s, 1, Min(c, Len(s)))

\* Python slice s[c:] for c >= 0
Drop(s, c) == SubSeq(s, Min(c, Len(s)) + 1, Len(s))

VARIABLES
    \* frames_from_video_file
    video_length, n_frames, frame_step, start, pos, ret, frame, result, it, spc,
    \* download_ucf_101_subset: the archive and the arguments
    listing, num_classes, splits, max_runs,
    \* download_ucf_101_subset: locals of the current run
    files, fidx, keys, files_for_class, classes, ci, si, dpc,
    \* local storage under download_dir, and the number of runs started
    disk, runs,
    \* history of the current run: the class lists as shuffled, what each split
    \* was allocated, what was extracted for it, and the storage at run start
    shuffled, alloc, extracted, pre_disk,
    \* the split directories the generators read, and the videos added so far
    tree, added,
    \* the FrameGenerator instances, and the pass each is in
    gen, gpc, scan, pairs, gi, yielded,
    \* history: the scan and the paths yielded of the last completed pass of
    \* each generator that does not shuffle
    prev

svars == <<video_length, n_frames, frame_step, start, pos, ret, frame, result, it, spc>>

dinputs == <<listing, num_classes, splits, max_runs>>

dlocals == <<files, fidx, keys, files_for_class, classes, ci, si, dpc>>

dhist == <<shuffled, alloc, extracted, pre_disk>>

dvars == <<dinputs, dlocals, disk, runs, dhist>>

gpass == <<gpc, scan, pairs, gi, yielded>>

gvars == <<tree, added, gen, gpass, prev>>

vars == <<svars, dvars, gvars>>

(***************************************************************************)
(* frames_from_video_file                                                  *)
(***************************************************************************)
\* the (video_length, n_frames, frame_step) of the end-to-end scenario
Scenario == <<100, 10, 15>>

\* output_size=(224, 224); the shape of a decoded frame is left abstract
OutputShape == "224x224"
RawShape == "native"

\* what cv2's read() hands back when it fails (Python None)
NoFrame == [src |-> -1, shape |-> "none", zero |-> FALSE, chan |-> "none"]

\* the decoded frame at index i of the stream, in the decoder's BGR order
RawFrame(i) == [src |-> i, shape |-> RawShape, zero |-> FALSE, chan |-> "BGR"]

\* format_frames: convert to float and resize_with_pad to output_size
format_frames(f) == [f EXCEPT !.shape = OutputShape]

\* np.zeros_like(f)
zeros_like(f) == [f EXCEPT !.src = -1, !.zero = TRUE]

\* result[..., [2, 1, 0]]
ReverseChannels(f) == [f EXCEPT !.chan = IF f.chan = "BGR" THEN "RGB" ELSE "BGR"]

need_length == 1 + (n_frames - 1) * frame_step

\* random.randint(a, b) draws from a..b, both ends included
randint(a, b) == a..b

\* the start offsets lines 105-111 can produce for a video of L frames
StartOffsetsOf(L, n, step) ==
    LET need == 1 + (n - 1) * step
    IN  IF need > L
        THEN {0}
        ELSE LET max_start == L - need
             IN  randint(0, max_start + 1)

StartOffsets == StartOffsetsOf(video_length, n_frames, frame_step)

\* one src.read() on a stream of length L at position p
Read(p, L) ==
    IF p < L THEN [ret |-> TRUE, frame |-> RawFrame(p), pos |-> p + 1]
    ELSE [ret |-> FALSE, frame |-> NoFrame, pos |-> p]

\* mutant of Reads: one read too many per stride
RECURSIVE ReadsOneMore(_, _)
ReadsOneMore(st, k) ==
    IF k = 0 THEN Read(st.pos, video_length)
    ELSE ReadsOneMore(Read(st.pos, video_length), k - 1)

\* the inner loop: frame_step reads, keeping the last (ret, frame)
RECURSIVE Reads(_, _)
Reads(st, k) ==
    IF k = 0 THEN st
    ELSE Reads(Read(st.pos, video_length), k - 1)

SamplerInputs ==
    {<<L, n, s>> : L \in 0..MaxLen, n \in 1..MaxFrames, s \in 0..MaxStep}
    \cup {Scenario}

SInit ==
    /\ \E inp \in SamplerInputs :
          /\ video_length = inp[1]
          /\ n_frames = inp[2]
          /\ frame_step = inp[3]
    /\ start = -1
    /\ pos = 0
    /\ ret = FALSE
    /\ frame = NoFrame
    /\ result = <<>>
    /\ it = 0
    /\ spc = "start"

\* lines 105-111
DrawStart ==
    /\ spc = "start"
    /\ \E s \in StartOffsets : start' = s
    /\ spc' = "first"
    /\ UNCHANGED <<video_length, n_frames, frame_step, pos, ret, frame, result, it>>

\* lines 112-114: seek, read one frame, format it, append
FirstRead ==
    /\ spc = "first"
    /\ LET r == Read(start, video_length)
       IN  /\ pos' = r.pos
           /\ ret' = r.ret
           /\ IF r.ret
              THEN /\ frame' = r.frame
                   /\ result' = <<format_frames(r.frame)>>
                   /\ spc' = "loop"
              ELSE \* format_frames(None) raises
                   /\ frame' = NoFrame
                   /\ result' = <<>>
                   /\ spc' = "raised"
    /\ UNCHANGED <<video_length, n_frames, frame_step, start, it>>

\* mutant of SampleNext: a failed read appends nothing
SampleNextNoPad ==
    /\ spc = "loop"
    /\ it < n_frames - 1
    /\ it' = it + 1
    /\ LET r == Reads([ret |-> ret, frame |-> frame, pos |-> pos], frame_step)
       IN  /\ pos' = r.pos
           /\ ret' = r.ret
           /\ IF r.ret
              THEN /\ frame' = format_frames(r.frame)
                   /\ result' = Append(result, format_frames(r.frame))
              ELSE /\ frame' = r.frame
                   /\ result' = result
    /\ UNCHANGED <<video_length, n_frames, frame_step, start, spc>>

\* lines 116-123: one iteration of the outer loop
SampleNext ==
    /\ spc = "loop"
    /\ it < n_frames - 1
    /\ it' = it + 1
    /\ LET r == Reads([ret |-> ret, frame |-> frame, pos |-> pos], frame_step)
       IN  /\ pos' = r.pos
           /\ ret' = r.ret
           /\ IF r.ret
              THEN /\ frame' = format_frames(r.frame)
                   /\ result' = Append(result, format_frames(r.frame))
              ELSE /\ frame' = r.frame
                   /\ result' = Append(result, zeros_like(result[1]))
    /\ UNCHANGED <<video_length, n_frames, frame_step, start, spc>>

\* lines 125-128
Finish ==
    /\ spc = "loop"
    /\ it >= n_frames - 1
    /\ result' = [i \in 1..Len(result) |-> ReverseChannels(result[i])]
    /\ spc' = "done"
    /\ UNCHANGED <<video_length, n_frames, frame_step, start, pos, ret, frame, it>>

SNext ==
    \/ DrawStart /\ UNCHANGED <<dvars, gvars>>
    \/ FirstRead /\ UNCHANGED <<dvars, gvars>>
    \/ SampleNext /\ UNCHANGED <<dvars, gvars>>
    \/ Finish /\ UNCHANGED <<dvars, gvars>>

(* ---------------- claims on frames_from_video_file ---------------- *)

\* C1: once the start offset is drawn, it lies in [0, L - need] when
\* L >= need, and is 0 when L < need.
C1_StartInRange ==
    spc \in {"first", "loop", "done", "raised"} =>
        IF video_length >= need_length
        THEN start \in 0..(video_length - need_length)
        ELSE start = 0

\* C3: the sequence frames_from_video_file returns holds exactly n_frames
\* frames, whatever the video length and the start offset drawn.
C3_ExactlyNFrames == spc = "done" => Len(result) = n_frames

\* a returned sequence of a video shorter than the span it needs
C3_ShortVideoReturned ==
    spc = "done" /\ n_frames > 1 /\ video_length < need_length

\* C6: in the returned sequence, sample k is the source frame at index
\* start + k * frame_step when that index is below L, and otherwise a zero
\* frame shaped like sample 0; after a zero-padded sample every later one is
\* zero-padded; in the scenario start = 0, samples 0..6 are frames
\* 0, 15, ..., 90 and samples 7..9 are zero frames.
C6_SampleIndices ==
    spc = "done" =>
        /\ \A k \in 0..(n_frames - 1) :
              LET idx == start + k * frame_step
                  smp == result[k + 1]
              IN  IF idx < video_length
                  THEN smp.src = idx /\ ~smp.zero
                  ELSE smp.zero /\ smp.src = -1 /\ smp.shape = result[1].shape
        /\ \A k \in 1..(n_frames - 1) : result[k].zero => result[k + 1].zero
        /\ <<video_length, n_frames, frame_step>> = Scenario =>
              /\ start = 0
              /\ \A k \in 0..6 : result[k + 1].src = 15 * k /\ ~result[k + 1].zero
              /\ \A k \in 7..9 : result[k + 1].zero

\* the scenario's call has returned
C6_ScenarioReturned ==
    spc = "done" /\ <<video_length, n_frames, frame_step>> = Scenario

(***************************************************************************)
(* download_ucf_101_subset and its helpers                                 *)
(***************************************************************************)
SplitNames == <<"train", "val", "test">>

\* An archive entry: its name (entry names of one archive are distinct), the
\* number of segments of its normalized path, and the token get_class takes
\* from it. Kinds "A" and "B" are videos of those classes, three segments
\* deep; kind "S" is archive-level noise such as 'UCF101/readme': two
\* segments, and no third-from-last '_'-separated token ("none").
Entry(i, kind) ==
    [name |-> i,
     segs |-> IF kind = "S" THEN 2 ELSE 3,
     cls |-> IF kind = "S" THEN "none" ELSE kind]

Kinds == {"A", "B", "S"}

FirstClassIsA(ks) ==
    \A i \in 1..Len(ks) : ks[i] = "B" => \E j \in 1..(i - 1) : ks[j] = "A"

MkListing(ks) == [i \in 1..Len(ks) |-> Entry(i, ks[i])]

\* the archive of the end-to-end scenario: ten entries of each of two classes
ScenarioListing == MkListing([i \in 1..20 |-> IF i <= 10 THEN "A" ELSE "B"])
ScenarioCounts == <<6, 2, 2>>

\* the listings drawn: classes are named in order of first appearance
Listings ==
    UNION {{MkListing(ks) : ks \in {q \in [1..n -> Kinds] : FirstClassIsA(q)}} :
              n \in 0..MaxFiles}

MkSplits(cs) == [i \in 1..Len(SplitNames) |-> [name |-> SplitNames[i], count |-> cs[i]]]

\* get_class: fname.split('_')[-3]
get_class(e) == e.cls

\* the filtering test of lines 72-74
IsShort(e) == e.segs <= 2

\* list.remove(x): drops the first element equal to x
RemoveFirst(s, x) ==
    LET i == CHOOSE j \in 1..Len(s) : s[j] = x /\ \A k \in 1..(j - 1) : s[k] # x
    IN  SubSeq(s, 1, i - 1) \o SubSeq(s, i + 1, Len(s))

\* get_files_per_class: the keys in order of first encounter
RECURSIVE KeysOf(_)
KeysOf(fs) ==
    IF fs = <<>> THEN <<>>
    ELSE LET rest == KeysOf(SubSeq(fs, 1, Len(fs) - 1))
             c == get_class(fs[Len(fs)])
         IN  IF c \in Range(rest) THEN rest ELSE Append(rest, c)

\* get_files_per_class: each class's entries in encounter order
get_files_per_class(fs) ==
    [c \in Range(KeysOf(fs)) |-> SelectSeq(fs, LAMBDA e : get_class(e) = c)]

Injections(n) == {p \in [1..n -> 1..n] : \A i, j \in 1..n : p[i] = p[j] => i = j}

Rotate(s, k) == SubSeq(s, k + 1, Len(s)) \o SubSeq(s, 1, k)

Reverse(s) == [i \in 1..Len(s) |-> s[Len(s) + 1 - i]]

\* random.shuffle: any permutation. Lists longer than MaxShuffle draw from a
\* sample of the permutations (the rotations and their reversals).
Shuffles(s) ==
    IF Len(s) <= MaxShuffle
    THEN {[i \in 1..Len(s) |-> s[p[i]]] : p \in Injections(Len(s))}
    ELSE {Rotate(s, k) : k \in 0..(Len(s) - 1)}
         \cup {Reverse(Rotate(s, k)) : k \in 0..(Len(s) - 1)}

\* mutant of SplitFiles: the slice is one entry short
RECURSIVE SplitFilesShort(_, _, _)
SplitFilesShort(ffc, cs, count) ==
    IF cs = <<>> THEN <<>>
    ELSE Take(ffc[cs[1]], count - 1) \o SplitFilesShort(ffc, Tail(cs), count)

\* split_class_lists: the flat list of every class's first count entries
RECURSIVE SplitFiles(_, _, _)
SplitFiles(ffc, cs, count) ==
    IF cs = <<>> THEN <<>>
    ELSE Take(ffc[cs[1]], count) \o SplitFiles(ffc, Tail(cs), count)

\* mutant of Remainder: the remainder keeps the entry last handed out
RemainderKeepsOne(ffc, count) == [c \in DOMAIN ffc |-> Drop(ffc[c], count - 1)]

\* split_class_lists: what is left of every class
Remainder(ffc, count) == [c \in DOMAIN ffc |-> Drop(ffc[c], count)]

NoDisk == [n \in Range(SplitNames) |-> [exists |-> FALSE, files |-> {}]]

NoHist == [n \in Range(SplitNames) |-> <<>>]

\* download_from_zip of the entries fs into a split directory d
Extract(d, fs) == [exists |-> d.exists \/ fs # <<>>, files |-> d.files \cup Range(fs)]

DIdle ==
    /\ listing = <<>> /\ num_classes = 0 /\ splits = <<>> /\ max_runs = 0
    /\ files = <<>> /\ fidx = 0 /\ keys = <<>> /\ files_for_class = <<>>
    /\ classes = <<>> /\ ci = 0 /\ si = 0 /\ dpc = "idle"
    /\ disk = NoDisk /\ runs = 0
    /\ shuffled = <<>> /\ alloc = NoHist /\ extracted = NoHist /\ pre_disk = NoDisk

SIdle ==
    /\ video_length = 0 /\ n_frames = 0 /\ frame_step = 0 /\ start = -1
    /\ pos = 0 /\ ret = FALSE /\ frame = NoFrame /\ result = <<>> /\ it = 0
    /\ spc = "idle"

\* (listing, num_classes, splits, runs): the small archives are run up to
\* MaxRuns times over the same download_dir, the scenario once
DownloadInputs ==
    {<<l, k, MkSplits(cs), MaxRuns>> :
        l \in Listings, k \in 1..2, cs \in [1..3 -> 1..MaxCount]}
    \cup {<<ScenarioListing, 2, MkSplits(ScenarioCounts), 1>>}

\* line 69 of a first run over an empty download_dir
DInit ==
    /\ \E inp \in DownloadInputs :
          /\ listing = inp[1]
          /\ num_classes = inp[2]
          /\ splits = inp[3]
          /\ max_runs = inp[4]
    /\ files = listing
    /\ fidx = 0
    /\ keys = <<>>
    /\ files_for_class = <<>>
    /\ classes = <<>>
    /\ ci = 0
    /\ si = 0
    /\ dpc = "filter"
    /\ disk = NoDisk
    /\ runs = 1
    /\ shuffled = <<>>
    /\ alloc = NoHist
    /\ extracted = NoHist
    /\ pre_disk = NoDisk

\* lines 71-75: one iteration of "for f in files", which indexes the list
\* it is removing from
FilterStep ==
    /\ dpc = "filter"
    /\ fidx < Len(files)
    /\ LET f == files[fidx + 1]
       IN  files' = IF IsShort(f) THEN RemoveFirst(files, f) ELSE files
    /\ fidx' = fidx + 1
    /\ UNCHANGED <<dinputs, keys, files_for_class, classes, ci, si, dpc, disk, runs, dhist>>

\* lines 76-77, entered when the iterator of line 71 is exhausted
Group ==
    /\ dpc = "filter"
    /\ fidx >= Len(files)
    /\ IF \E i \in 1..Len(files) : get_class(files[i]) = "none"
       THEN \* get_class raises IndexError
            /\ dpc' = "raised"
            /\ UNCHANGED <<keys, files_for_class, classes>>
       ELSE /\ keys' = KeysOf(files)
            /\ files_for_class' = get_files_per_class(files)
            /\ classes' = Take(KeysOf(files), num_classes)
            /\ dpc' = "shuffle"
    /\ ci' = 0
    /\ UNCHANGED <<dinputs, files, fidx, si, disk, runs, dhist>>

\* lines 79-80: one iteration
ShuffleClass ==
    /\ dpc = "shuffle"
    /\ ci < Len(classes)
    /\ \E sh \in Shuffles(files_for_class[classes[ci + 1]]) :
          files_for_class' = [files_for_class EXCEPT ![classes[ci + 1]] = sh]
    /\ ci' = ci + 1
    /\ UNCHANGED <<dinputs, files, fidx, keys, classes, si, dpc, disk, runs, dhist>>

\* lines 81-82
Restrict ==
    /\ dpc = "shuffle"
    /\ ci >= Len(classes)
    /\ files_for_class' = [c \in Range(classes) |-> files_for_class[c]]
    /\ shuffled' = [c \in Range(classes) |-> files_for_class[c]]
    /\ si' = 0
    /\ dpc' = "split"
    /\ UNCHANGED <<dinputs, files, fidx, keys, classes, ci, disk, runs,
                   alloc, extracted, pre_disk>>

\* mutant of SplitStep: the download does not look at split_dir.exists()
SplitStepAlways ==
    /\ dpc = "split"
    /\ si < Len(splits)
    /\ LET sp == splits[si + 1]
           split_files == SplitFiles(files_for_class, classes, sp.count)
       IN  /\ files_for_class' = Remainder(files_for_class, sp.count)
           /\ alloc' = [alloc EXCEPT ![sp.name] = split_files]
           /\ disk' = [disk EXCEPT ![sp.name] = Extract(@, split_files)]
           /\ extracted' = [extracted EXCEPT ![sp.name] = split_files]
    /\ si' = si + 1
    /\ UNCHANGED <<dinputs, files, fidx, keys, classes, ci, dpc, runs, shuffled, pre_disk>>

\* lines 84-90: one iteration, download_from_zip running to its end
SplitStep ==
    /\ dpc = "split"
    /\ si < Len(splits)
    /\ LET sp == splits[si + 1]
           split_files == SplitFiles(files_for_class, classes, sp.count)
       IN  /\ files_for_class' = Remainder(files_for_class, sp.count)
           /\ alloc' = [alloc EXCEPT ![sp.name] = split_files]
           /\ IF ~disk[sp.name].exists
              THEN /\ disk' = [disk EXCEPT ![sp.name] = Extract(@, split_files)]
                   /\ extracted' = [extracted EXCEPT ![sp.name] = split_files]
              ELSE UNCHANGED <<disk, extracted>>
    /\ si' = si + 1
    /\ UNCHANGED <<dinputs, files, fidx, keys, classes, ci, dpc, runs, shuffled, pre_disk>>

\* lines 84-89: one iteration in which zip.extract raises on the entry after
\* the first k of the split's entries; the class directory of that entry has
\* been created by then
SplitStepFails ==
    /\ dpc = "split"
    /\ si < Len(splits)
    /\ LET sp == splits[si + 1]
           split_files == SplitFiles(files_for_class, classes, sp.count)
       IN  /\ ~disk[sp.name].exists
           /\ \E k \in 0..(Len(split_files) - 1) :
                 /\ disk' = [disk EXCEPT ![sp.name] =
                                [exists |-> TRUE,
                                 files |-> @.files \cup Range(Take(split_files, k))]]
                 /\ extracted' = [extracted EXCEPT ![sp.name] = Take(split_files, k)]
           /\ files_for_class' = Remainder(files_for_class, sp.count)
           /\ alloc' = [alloc EXCEPT ![sp.name] = split_files]
    /\ dpc' = "raised"
    /\ UNCHANGED <<dinputs, files, fidx, keys, classes, ci, si, runs, shuffled, pre_disk>>

\* line 92
Return ==
    /\ dpc = "split"
    /\ si >= Len(splits)
    /\ dpc' = "done"
    /\ UNCHANGED <<dinputs, files, fidx, keys, files_for_class, classes, ci, si,
                   disk, runs, dhist>>

\* a later call with the same arguments: line 69
StartRun ==
    /\ dpc \in {"done", "raised"}
    /\ runs < max_runs
    /\ runs' = runs + 1
    /\ files' = listing
    /\ fidx' = 0
    /\ keys' = <<>>
    /\ files_for_class' = <<>>
    /\ classes' = <<>>
    /\ ci' = 0
    /\ si' = 0
    /\ dpc' = "filter"
    /\ shuffled' = <<>>
    /\ alloc' = NoHist
    /\ extracted' = NoHist
    /\ pre_disk' = disk
    /\ UNCHANGED <<dinputs, disk>>

DNext ==
    \/ FilterStep /\ UNCHANGED <<svars, gvars>>
    \/ Group /\ UNCHANGED <<svars, gvars>>
    \/ ShuffleClass /\ UNCHANGED <<svars, gvars>>
    \/ Restrict /\ UNCHANGED <<svars, gvars>>
    \/ SplitStep /\ UNCHANGED <<svars, gvars>>
    \/ SplitStepFails /\ UNCHANGED <<svars, gvars>>
    \/ Return /\ UNCHANGED <<svars, gvars>>
    \/ StartRun /\ UNCHANGED <<svars, gvars>>

(***************************************************************************)
(* FrameGenerator                                                          *)
(***************************************************************************)
\* the two directories generators are built over, as in main()
Dirs == {"train", "val"}

\* the class-directory names, listed in Python's string order
Names == <<"a", "b">>

\* a file that is not a directory, directly under a split directory
PlainFile == "notes"

VideoNames == {"v1", "v2"}

\* CAP_PROP_FRAME_COUNT of a video file
VideoLen(v) == IF v = "v1" THEN 1 ELSE 2

\* frame_step=15, the default FrameGenerator leaves in place
DefaultFrameStep == 15

Before(x, y) ==
    \E i, j \in 1..Len(Names) : Names[i] = x /\ Names[j] = y /\ i < j

\* sorted(S)
RECURSIVE Sorted(_)
Sorted(S) ==
    IF S = {} THEN <<>>
    ELSE LET m == CHOOSE x \in S : \A y \in S : ~Before(y, x)
         IN  <<m>> \o Sorted(S \ {m})

\* A directory is the sequence of its entries in the order the file system
\* lists them: [name, isdir, files], files being the videos of a class
\* directory in listing order.
DirEntry(nm) ==
    IF nm = PlainFile
    THEN [name |-> nm, isdir |-> FALSE, files |-> <<>>]
    ELSE [name |-> nm, isdir |-> TRUE, files |-> <<"v1">>]

\* mutant of ClassNames: the names in listing order, not sorted
ClassNamesAsListed(t) ==
    LET ds == SelectSeq(t, LAMBDA e : e.isdir)
    IN  [i \in 1..Len(ds) |-> ds[i].name]

\* line 142: sorted(set(p.name for p in self.path.iterdir() if p.is_dir()))
ClassNames(t) == Sorted({t[i].name : i \in {j \in 1..Len(t) : t[j].isdir}})

\* line 143: dict((name, idx) for idx, name in enumerate(self.class_names))
ClassIds(cn) == [nm \in Range(cn) |-> (CHOOSE i \in 1..Len(cn) : cn[i] = nm) - 1]

\* FrameGenerator.__init__
NewGenerator(path, t, n, training) ==
    [path |-> path, n_frames |-> n, training |-> training,
     class_names |-> ClassNames(t),
     class_ids_for_name |-> ClassIds(ClassNames(t))]

\* the videos of the class directories of t, in discovery order
RECURSIVE Glob(_)
Glob(t) ==
    IF t = <<>> THEN <<>>
    ELSE LET e == t[1]
         IN  (IF e.isdir THEN [i \in 1..Len(e.files) |-> [cls |-> e.name, name |-> e.files[i]]]
              ELSE <<>>) \o Glob(Tail(t))

\* get_files_and_class_names: the (path, class name) pairs of glob('*/*.avi')
get_files_and_class_names(t) == Glob(t)

\* the orders in which a file system may list the entries in S
Orders(S) == {q \in [1..Cardinality(S) -> S] : \A i, j \in 1..Cardinality(S) : q[i] = q[j] => i = j}

\* the directories at construction: class directories of one video each, in
\* any listing order, possibly after a plain file
Trees ==
    LET ClassDirs == UNION {{[i \in 1..Len(q) |-> DirEntry(q[i])] : q \in Orders(S)} :
                               S \in SUBSET Range(Names)}
    IN  ClassDirs \cup {<<DirEntry(PlainFile)>> \o t : t \in ClassDirs}

NoPass == [scan |-> <<>>, out |-> <<>>, full |-> FALSE]

GIdle ==
    /\ tree = [d \in Dirs |-> <<>>] /\ added = 0
    /\ gen = [d \in Dirs |-> NewGenerator(d, <<>>, 0, FALSE)]
    /\ gpc = [d \in Dirs |-> "idle"]
    /\ scan = [d \in Dirs |-> <<>>] /\ pairs = [d \in Dirs |-> <<>>]
    /\ gi = [d \in Dirs |-> 0] /\ yielded = [d \in Dirs |-> <<>>]
    /\ prev = [d \in Dirs |-> NoPass]

\* one generator built over each directory, as main() builds them: the one
\* over train with training=True, the one over val with the default
GInit ==
    /\ tree \in [Dirs -> Trees]
    /\ added = 0
    /\ \E n \in {1, 10} :
          gen = [d \in Dirs |-> NewGenerator(d, tree[d], n, d = "train")]
    /\ gpc = [d \in Dirs |-> "idle"]
    /\ scan = [d \in Dirs |-> <<>>]
    /\ pairs = [d \in Dirs |-> <<>>]
    /\ gi = [d \in Dirs |-> 0]
    /\ yielded = [d \in Dirs |-> <<>>]
    /\ prev = [d \in Dirs |-> NoPass]

HasDir(t, c) == \E i \in 1..Len(t) : t[i].isdir /\ t[i].name = c

HasVideo(t, c, v) == \E i \in 1..Len(t) : t[i].name = c /\ v \in Range(t[i].files)

InsertAt(s, k, x) == SubSeq(s, 1, k) \o <<x>> \o SubSeq(s, k + 1, Len(s))

\* no pass is being pulled from
NoPuller == \A d \in Dirs : gpc[d] # "iter"

\* between passes, a download puts a video into a class directory of d,
\* making the directory first when it is not there
AddVideo(d, c, v) ==
    /\ NoPuller
    /\ added < MaxVideos
    /\ ~HasVideo(tree[d], c, v)
    /\ added' = added + 1
    /\ IF HasDir(tree[d], c)
       THEN tree' = [tree EXCEPT ![d] =
                        [i \in 1..Len(@) |->
                            IF @[i].name = c
                            THEN [@[i] EXCEPT !.files = Append(@, v)]
                            ELSE @[i]]]
       ELSE \E k \in 0..Len(tree[d]) :
                tree' = [tree EXCEPT ![d] =
                            InsertAt(@, k, [name |-> c, isdir |-> TRUE, files |-> <<v>>])]
    /\ UNCHANGED <<gen, gpass, prev>>

\* mutant of Call: the pairs are shuffled whatever self.training says
CallShuffling(g) ==
    /\ NoPuller
    /\ LET found == get_files_and_class_names(tree[g])
       IN  /\ scan' = [scan EXCEPT ![g] = found]
           /\ \E sh \in Shuffles(found) : pairs' = [pairs EXCEPT ![g] = sh]
    /\ gi' = [gi EXCEPT ![g] = 0]
    /\ yielded' = [yielded EXCEPT ![g] = <<>>]
    /\ gpc' = [gpc EXCEPT ![g] = "iter"]
    /\ UNCHANGED <<tree, added, gen, prev>>

\* lines 151-155: an invocation of the generator, up to its first yield
Call(g) ==
    /\ NoPuller
    /\ LET found == get_files_and_class_names(tree[g])
       IN  /\ scan' = [scan EXCEPT ![g] = found]
           /\ IF gen[g].training
              THEN \E sh \in Shuffles(found) : pairs' = [pairs EXCEPT ![g] = sh]
              ELSE pairs' = [pairs EXCEPT ![g] = found]
    /\ gi' = [gi EXCEPT ![g] = 0]
    /\ yielded' = [yielded EXCEPT ![g] = <<>>]
    /\ gpc' = [gpc EXCEPT ![g] = "iter"]
    /\ UNCHANGED <<tree, added, gen, prev>>

\* the generator object of a pass that ended, raised or was dropped is gone
DropPass(g) ==
    /\ scan' = [scan EXCEPT ![g] = <<>>]
    /\ pairs' = [pairs EXCEPT ![g] = <<>>]
    /\ gi' = [gi EXCEPT ![g] = 0]
    /\ yielded' = [yielded EXCEPT ![g] = <<>>]

\* lines 157-160: one iteration: the frames are sampled, the label is looked
\* up and the pair is yielded; a failed first read (format_frames(None)) and
\* a class name unknown at construction (KeyError) both raise
Yield(g) ==
    /\ gpc[g] = "iter"
    /\ gi[g] < Len(pairs[g])
    /\ LET p == pairs[g][gi[g] + 1]
           L == VideoLen(p.name)
       IN  \E st \in StartOffsetsOf(L, gen[g].n_frames, DefaultFrameStep) :
              IF st < L /\ p.cls \in DOMAIN gen[g].class_ids_for_name
              THEN /\ yielded' = [yielded EXCEPT ![g] =
                                     Append(@, [path |-> p,
                                                label |-> gen[g].class_ids_for_name[p.cls]])]
                   /\ gi' = [gi EXCEPT ![g] = @ + 1]
                   /\ UNCHANGED <<gpc, scan, pairs>>
              ELSE /\ gpc' = [gpc EXCEPT ![g] = "raised"]
                   /\ DropPass(g)
    /\ UNCHANGED <<tree, added, gen, prev>>

\* the paths of the pairs a pass has yielded, in order
PathsOf(ys) == [i \in 1..Len(ys) |-> ys[i].path]

\* the loop of line 157 ends: StopIteration
Exhaust(g) ==
    /\ gpc[g] = "iter"
    /\ gi[g] >= Len(pairs[g])
    /\ gpc' = [gpc EXCEPT ![g] = "exhausted"]
    /\ DropPass(g)
    /\ prev' = [prev EXCEPT ![g] =
                   IF gen[g].training THEN @
                   ELSE [scan |-> scan[g], out |-> PathsOf(yielded[g]), full |-> TRUE]]
    /\ UNCHANGED <<tree, added, gen>>

\* the consumer stops pulling, as next(fg()) does after one pair
Abandon(g) ==
    /\ gpc[g] = "iter"
    /\ gpc' = [gpc EXCEPT ![g] = "idle"]
    /\ DropPass(g)
    /\ UNCHANGED <<tree, added, gen, prev>>

GNext ==
    \/ \E d \in Dirs, c \in Range(Names), v \in VideoNames :
          AddVideo(d, c, v) /\ UNCHANGED <<svars, dvars>>
    \/ \E g \in Dirs : Call(g) /\ UNCHANGED <<svars, dvars>>
    \/ \E g \in Dirs : Yield(g) /\ UNCHANGED <<svars, dvars>>
    \/ \E g \in Dirs : Exhaust(g) /\ UNCHANGED <<svars, dvars>>
    \/ \E g \in Dirs : Abandon(g) /\ UNCHANGED <<svars, dvars>>

(* ---------------- claims on FrameGenerator ---------------- *)

\* the names of the class directories of t
DirNames(t) == {t[i].name : i \in {j \in 1..Len(t) : t[j].isdir}}

IsPermutation(s, t) ==
    /\ Len(s) = Len(t)
    /\ Range(s) = Range(t)
    /\ \A i, j \in 1..Len(s) : s[i] = s[j] => i = j

\* the pass of g has yielded a pair for every file it found
PassComplete(g) == gpc[g] = "iter" /\ gi[g] >= Len(pairs[g])

\* C7: the label of every yielded sample is the position of the video's
\* parent-directory name in the sorted list of the distinct class-directory
\* names the generator scanned, so it lies in [0, N); two generators whose
\* directories hold the same class-directory names give every name the same
\* id, on every pass.
C7_LabelIsSortedPosition ==
    /\ \A g \in Dirs :
          LET cn == gen[g].class_names
          IN  /\ \A i, j \in 1..Len(cn) : i < j => Before(cn[i], cn[j])
              /\ Range(cn) \subseteq DirNames(tree[g])
              /\ added = 0 => Range(cn) = DirNames(tree[g])
              /\ \A k \in 1..Len(yielded[g]) :
                    LET y == yielded[g][k]
                    IN  /\ y.label \in 0..(Len(cn) - 1)
                        /\ cn[y.label + 1] = y.path.cls
    /\ \A g, h \in Dirs :
          Range(gen[g].class_names) = Range(gen[h].class_names) =>
              gen[g].class_ids_for_name = gen[h].class_ids_for_name

\* two directories that list the same two class directories in different
\* orders, and a sample of the second class yielded from one of them
C7_SameNamesOtherOrder ==
    /\ DirNames(tree["train"]) = DirNames(tree["val"])
    /\ ClassNamesAsListed(tree["train"]) # ClassNamesAsListed(tree["val"])
    /\ \E g \in Dirs : \E k \in 1..Len(yielded[g]) : yielded[g][k].label = 1

\* C8: every invocation is a fresh pass over the files its own scan of the
\* directory finds, yielding one pair per file, each file once; without
\* training the pairs come in discovery order, so two passes that find the
\* same files yield them in the same order; with training the pass yields a
\* permutation of the files found.
C8_FreshPass ==
    \A g \in Dirs :
        /\ gpc[g] = "iter" =>
              /\ scan[g] = Glob(tree[g])
              /\ IsPermutation(pairs[g], scan[g])
              /\ ~gen[g].training => pairs[g] = scan[g]
              /\ PathsOf(yielded[g]) = SubSeq(pairs[g], 1, gi[g])
        /\ PassComplete(g) =>
              /\ IsPermutation(PathsOf(yielded[g]), scan[g])
              /\ ~gen[g].training => PathsOf(yielded[g]) = scan[g]
              /\ (~gen[g].training /\ prev[g].full /\ prev[g].scan = scan[g]) =>
                    PathsOf(yielded[g]) = prev[g].out

\* a second complete pass in discovery order over the same two or more files
C8_SecondPassComplete ==
    \E g \in Dirs :
        /\ PassComplete(g) /\ ~gen[g].training
        /\ prev[g].full /\ prev[g].scan = scan[g]
        /\ Len(scan[g]) >= 2

(* ---------------- claims on download_ucf_101_subset ---------------- *)

\* the entries of class c in a flat file list, in order
OfClass(fs, c) == SelectSeq(fs, LAMBDA e : get_class(e) = c)

RECURSIVE SumCounts(_)
SumCounts(n) == IF n = 0 THEN 0 ELSE SumCounts(n - 1) + splits[n].count

\* the number of entries of class c in a flat file list
CountOfClass(fs, c) == Cardinality({i \in 1..Len(fs) : get_class(fs[i]) = c})

\* the entries of class c in a flat file list, as a set
SetOfClass(fs, c) == {e \in Range(fs) : get_class(e) = c}

RECURSIVE SumAlloc(_, _)
SumAlloc(n, c) ==
    IF n = 0 THEN 0 ELSE SumAlloc(n - 1, c) + CountOfClass(alloc[splits[n].name], c)

\* the class lists are shuffled and the splits are being, or have been, cut
Allocating == dpc \in {"split", "done", "raised"} /\ shuffled # <<>>

\* C2: in one run, for every class, the entries allocated to two different
\* splits are disjoint, and the allocations of all splits together number no
\* more than the class's members before the first split.
C2_SplitsDisjoint ==
    Allocating =>
        \A c \in DOMAIN shuffled :
            /\ \A i, j \in 1..Len(SplitNames) :
                  i < j => SetOfClass(alloc[SplitNames[i]], c)
                               \cap SetOfClass(alloc[SplitNames[j]], c) = {}
            /\ SumAlloc(Len(splits), c) <= Len(shuffled[c])

\* a completed run that gave entries of one class to two splits
C2_TwoSplitsOfAClass ==
    /\ dpc = "done"
    /\ \E c \in DOMAIN shuffled : \E a, b \in Range(SplitNames) :
          a # b /\ OfClass(alloc[a], c) # <<>> /\ OfClass(alloc[b], c) # <<>>

\* the slice of the shuffled list of class c that the i-th split is due
DueSlice(i, c) ==
    LET n == Len(shuffled[c])
    IN  SubSeq(shuffled[c], Min(SumCounts(i - 1), n) + 1, Min(SumCounts(i), n))

\* C4: in a completed run, a split whose directory existed has nothing
\* downloaded and its directory unchanged; its allocation is still taken
\* from the class lists; every split whose directory did not exist is
\* downloaded in full.
C4_ExistingSplitSkipped ==
    dpc = "done" =>
        \A i \in 1..Len(splits) :
            LET name == splits[i].name
            IN  IF pre_disk[name].exists
                THEN /\ extracted[name] = <<>>
                     /\ disk[name] = pre_disk[name]
                     /\ \A c \in DOMAIN shuffled : OfClass(alloc[name], c) = DueSlice(i, c)
                     /\ \A j \in (i + 1)..Len(splits) :
                           Range(alloc[splits[j].name]) \cap Range(alloc[name]) = {}
                ELSE /\ extracted[name] = alloc[name]
                     /\ disk[name].files = Range(alloc[name])

\* a completed run that skipped one split with entries allocated to it and
\* downloaded entries of another
C4_SkippedAndDownloaded ==
    /\ dpc = "done"
    /\ \E a, b \in Range(SplitNames) :
          /\ pre_disk[a].exists /\ alloc[a] # <<>>
          /\ ~pre_disk[b].exists /\ extracted[b] # <<>>

\* C5: the i-th split receives, for every class, the entries at positions
\* [c1+...+c(i-1), c1+...+ci) of the class's shuffled list, cut at the
\* list's end, and what is left after it is the list from position
\* c1+...+ci on; in the scenario (two classes of ten, splits 6, 2, 2) train
\* gets 6+6, val 2+2, test 2+2 and nothing is left.
C5_SplitPositions ==
    /\ (dpc \in {"split", "done"} /\ shuffled # <<>>) =>
          \A c \in DOMAIN shuffled :
              /\ \A i \in 1..si : OfClass(alloc[splits[i].name], c) = DueSlice(i, c)
              /\ files_for_class[c] =
                    SubSeq(shuffled[c], Min(SumCounts(si), Len(shuffled[c])) + 1,
                           Len(shuffled[c]))
    /\ (dpc = "done" /\ listing = ScenarioListing) =>
          /\ DOMAIN shuffled = {"A", "B"}
          /\ \A c \in {"A", "B"} :
                /\ Len(OfClass(alloc["train"], c)) = 6
                /\ Len(OfClass(alloc["val"], c)) = 2
                /\ Len(OfClass(alloc["test"], c)) = 2
                /\ OfClass(alloc["val"], c) = SubSeq(shuffled[c], 7, 8)
                /\ files_for_class[c] = <<>>
          /\ Len(alloc["train"]) = 12 /\ Len(alloc["val"]) = 4 /\ Len(alloc["test"]) = 4

\* the scenario's run has completed
C5_ScenarioDone == dpc = "done" /\ listing = ScenarioListing

\* C9: when the filtering loop has ended, no entry of fewer than 3 segments
\* is left in the file list, and every entry of 3 or more segments is.
C9_NoShortEntryLeft ==
    (dpc = "filter" /\ fidx >= Len(files)) =>
        /\ \A i \in 1..Len(files) : files[i].segs >= 3
        /\ files = SelectSeq(listing, LAMBDA e : e.segs >= 3)

\* C10: whatever runs came before, no video file is on local storage under
\* two different split directories.
C10_DiskSplitsDisjoint ==
    \A a, b \in Range(SplitNames) :
        a # b => disk[a].files \cap disk[b].files = {}

InitSampler == SInit /\ DIdle /\ GIdle

SpecSampler == InitSampler /\ [][SNext]_vars

InitDownload == DInit /\ SIdle /\ GIdle

SpecDownload == InitDownload /\ [][DNext]_vars

InitGenerator == GInit /\ SIdle /\ DIdle

SpecGenerator == InitGenerator /\ [][GNext]_vars

====
